---- MODULE Spec2Model ----
(***************************************************************************)
(* Model of the record validation engine of src/validator/validator.py:    *)
(* ConstraintsBuilder (the fluent builder), RecordValidator (the           *)
(* evaluator) and the Validator base class (rule evaluators and the error  *)
(* report); and of the logging decorator of src/logger/generate_logs.py    *)
(* with the singleton DatabaseManager it decorates                         *)
(* (src/database_handler/get_database_manager.py).                         *)
(*                                                                         *)
(* Python objects are modelled with their identity where the code shares   *)
(* them: the inner per-field dicts of the builder live in `heap` and are   *)
(* referred to by index, so that build()'s dict(...) copy is the shallow   *)
(* copy the code makes.  Dicts keep their insertion order, as Python's do. *)
(***************************************************************************)
EXTENDS Integers, Sequences, FiniteSets, TLC

VARIABLES heap, b_constraints, built, rv, errors, pc, data, idx, outcome,
          failed, calls, ret, instances, log_file, last

\* The state of the logging decorator and the database manager.
dbVars == <<instances, log_file, last>>

\* The state of the builder and the validator.
validatorVars == <<heap, b_constraints, built, rv, errors, pc, data, idx,
                   outcome, failed, calls, ret>>

vars == <<validatorVars, dbVars>>

(***************************************************************************)
(* Bounds and input sets                                                   *)
(***************************************************************************)

\* Number of add_* calls made on the builder.
MaxBuilderCalls == 2

\* Field names used by builder calls and records.
Keys == {"name", "value"}

\* `failed` is a history variable: whether some validate call on the
\* validator has ended with the aggregated report.  No action reads it.

\* `calls` is a history variable: per field, the add_* calls made for it, in
\* call order.  `ret` is what the last add_* call returned.  No action reads
\* either.

\* `last` is a history variable: the last call made on the database manager
\* (its name, the URL given, the manager and the length of the log file
\* before it, the library calls it made with their outcomes, and how it
\* ended for the caller).  No action reads it.

\* Number of lines in the log file after which no further call is made.
MaxLogLines == 3

\* Connection URLs a caller passes ('' is the empty string).
Urls == {"", "sqlite:///etl.db", "postgresql://etl@db/etl"}

\* The environment variable is not set.
Unset == "(unset)"

\* What the environment holds for the variable the reader is given.
EnvValues == {Unset, "", "sqlite:///etl.db"}

\* How sqlalchemy.create_engine(url) may end: with an Engine, with an
\* SQLAlchemyError (a URL it cannot parse), with another Exception (the
\* driver module is missing) or interrupted.
CreateOutcomes == {"Engine", "SQLAlchemyError", "ImportError",
                   "KeyboardInterrupt"}

\* How engine.connect() followed by conn.execute('SELECT 1') may end.
ConnectOutcomes == {"ok", "SQLAlchemyError", "KeyboardInterrupt"}

\* Threads that may call validate; MainThread is the single-threaded caller.
Threads == {"t1", "t2"}

MainThread == "t1"

(***************************************************************************)
(* Python values (the dynamic type is part of the value)                   *)
(***************************************************************************)

PyInt(n) == [t |-> "int", v |-> n]

PyBool(b) == [t |-> "bool", v |-> b]

\* A str is the sequence of its characters.
PyStr(s) == [t |-> "str", v |-> s]

PyList(l) == [t |-> "list", v |-> l]

PyNone == [t |-> "NoneType", v |-> 0]

Wojtek == <<"W", "o", "j", "t", "e", "k">>

wojtek == <<"w", "o", "j", "t", "e", "k">>

\* Values a record field may hold.
Values ==
    { PyInt(0), PyInt(11), PyBool(TRUE), PyBool(FALSE),
      PyStr(<<>>), PyStr(Wojtek), PyStr(wojtek),
      PyList(<<>>), PyList(<<1, 2>>) }

\* Records: every mapping from a set of field names to values ({} included).
Records == UNION { [S -> Values] : S \in SUBSET Keys }

\* Records used by the concurrent specification.
ConcValues == { PyStr(Wojtek), PyStr(wojtek) }

ConcRecords == UNION { [S -> ConcValues] : S \in SUBSET Keys }

\* bool(x): Python truthiness.
Truthy(x) ==
    CASE x.t = "int" -> x.v # 0
      [] x.t = "bool" -> x.v
      [] x.t = "str" -> Len(x.v) > 0
      [] x.t = "list" -> Len(x.v) > 0
      [] OTHER -> FALSE

\* isinstance(x, numbers.Number): bool is a subclass of int.
IsNumber(x) == x.t \in {"int", "float", "bool"}

\* dict.get(key): None when the key is absent.
DictGet(d, key) == IF key \in DOMAIN d THEN d[key] ELSE PyNone

(***************************************************************************)
(* Regular expressions: the patterns the builder is given, and re.match    *)
(***************************************************************************)

Upper == {"W"}

Lower == {"o", "j", "t", "e", "k", "w"}

Regexes == {"[A-Z][a-z]+", "[a-zA-Z]{6}"}

\* re.compile: a pattern is a sequence of character classes with repetition
\* counts lo..hi (hi = -1: unbounded).
ReCompile(regex) ==
    CASE regex = "[A-Z][a-z]+" ->
            << [cls |-> Upper, lo |-> 1, hi |-> 1],
               [cls |-> Lower, lo |-> 1, hi |-> -1] >>
      [] regex = "[a-zA-Z]{6}" ->
            << [cls |-> Upper \cup Lower, lo |-> 6, hi |-> 6] >>

RECURSIVE ReMatchFrom(_, _, _)
\* Whether `tokens` match a prefix of text starting at position pos.
ReMatchFrom(tokens, text, pos) ==
    IF tokens = <<>> THEN TRUE
    ELSE LET tok == Head(tokens)
             rest == Len(text) - pos + 1
             top == IF tok.hi = -1 \/ tok.hi > rest THEN rest ELSE tok.hi
         IN \E k \in tok.lo .. top :
                /\ \A j \in pos .. (pos + k - 1) : text[j] \in tok.cls
                /\ ReMatchFrom(Tail(tokens), text, pos + k)

\* Validator.match_regex: re.match anchors at the start of the text only, and
\* raises TypeError when text is not a str.
match_regex(regex, text) ==
    IF text.t # "str"
    THEN [exc |-> "TypeError", ok |-> FALSE]
    ELSE [exc |-> "None", ok |-> ReMatchFrom(ReCompile(regex), text.v, 1)]

(***************************************************************************)
(* Predicates handed to add_value_check / add_list_check / add_bool_check  *)
(***************************************************************************)

ValuePredicates == {"x > 5", "x <= 10"}

ListPredicates == {"len(x) < 3"}

BoolPredicates == {"not x"}

\* True and False compare as the integers 1 and 0.
AsInt(x) == IF x.t = "bool" THEN (IF x.v THEN 1 ELSE 0) ELSE x.v

\* Validator.check_condition: calls the predicate; an exception of the
\* predicate propagates.
check_condition(condition, obj) ==
    CASE condition = "x > 5" ->
            IF IsNumber(obj) THEN [exc |-> "None", ok |-> AsInt(obj) > 5]
            ELSE [exc |-> "TypeError", ok |-> FALSE]
      [] condition = "x <= 10" ->
            IF IsNumber(obj) THEN [exc |-> "None", ok |-> AsInt(obj) <= 10]
            ELSE [exc |-> "TypeError", ok |-> FALSE]
      [] condition = "len(x) < 3" ->
            IF obj.t \in {"str", "list"}
            THEN [exc |-> "None", ok |-> Len(obj.v) < 3]
            ELSE [exc |-> "TypeError", ok |-> FALSE]
      [] condition = "not x" -> [exc |-> "None", ok |-> ~Truthy(obj)]

\* Validator.check_instance
check_instance(obj, element) ==
    CASE obj = "numeric" -> IsNumber(element)
      [] obj = "str" -> element.t = "str"
      [] obj = "bool" -> element.t = "bool"
      [] obj = "list" -> element.t = "list"
      [] OTHER -> FALSE

(***************************************************************************)
(* Exceptions and the error report (Validator.errors)                      *)
(***************************************************************************)

NoExc == [type |-> "None", msg |-> ""]

Exc(type, msg) == [type |-> type, msg |-> msg]

\* The exception a rule evaluator ended with (messages as CPython words them).
EvalExc(r, what, obj) ==
    IF r.exc = "None" THEN NoExc
    ELSE CASE what = "regex" ->
                Exc(r.exc, "expected string or bytes-like object, got '"
                           \o obj.t \o "'")
           [] what = "len(x) < 3" ->
                Exc(r.exc, "object of type '" \o obj.t \o "' has no len()")
           [] what = "x > 5" ->
                Exc(r.exc, "'>' not supported between instances of '"
                           \o obj.t \o "' and 'int'")
           [] what = "x <= 10" ->
                Exc(r.exc, "'<=' not supported between instances of '"
                           \o obj.t \o "' and 'int'")
           [] OTHER -> Exc(r.exc, "")

\* A value stored in the report: a str, or a list of str.
ErrStr(s) == [t |-> "str", v |-> s]

ErrList(l) == [t |-> "list", v |-> l]

\* defaultdict(list)(): the report is a dict in insertion order, a sequence
\* of [key, val] entries.
NewErrors == <<>>

HasKey(d, key) == \E i \in 1 .. Len(d) : d[i].key = key

IndexOf(d, key) == CHOOSE i \in 1 .. Len(d) : d[i].key = key

\* d[key] = val: a present key keeps its position.
DictSet(d, key, val) ==
    IF HasKey(d, key)
    THEN [d EXCEPT ![IndexOf(d, key)].val = val]
    ELSE Append(d, [key |-> key, val |-> val])

\* self.errors[key].append(msg): a missing key is created with [] first; a
\* str stored under the key has no append.
ErrorsAppend(errs, key, msg) ==
    IF ~HasKey(errs, key)
    THEN [errors |-> Append(errs, [key |-> key, val |-> ErrList(<<msg>>)]),
          exc |-> NoExc]
    ELSE LET cur == errs[IndexOf(errs, key)].val IN
         IF cur.t = "list"
         THEN [errors |-> DictSet(errs, key, ErrList(Append(cur.v, msg))),
               exc |-> NoExc]
         ELSE [errors |-> errs,
               exc |-> Exc("AttributeError",
                           "'str' object has no attribute 'append'")]

RegexMessage(i) == "does not match regex number " \o ToString(i)

ConditionMessage(i) == "does not match condition number: " \o ToString(i)

RECURSIVE JoinQuoted(_)
\* The items of a list's repr: 'a', 'b'
JoinQuoted(l) ==
    IF l = <<>> THEN ""
    ELSE IF Len(l) = 1 THEN "'" \o l[1] \o "'"
    ELSE "'" \o l[1] \o "', " \o JoinQuoted(Tail(l))

\* f'{message}': a str as it is, a list as its repr.
Format(val) == IF val.t = "str" THEN val.v ELSE "[" \o JoinQuoted(val.v) \o "]"

RECURSIVE errors_to_str(_)
\* Validator.errors_to_str
errors_to_str(errs) ==
    IF errs = <<>> THEN ""
    ELSE LET first == errs[1].key \o ": " \o Format(errs[1].val) IN
         IF Len(errs) = 1 THEN first
         ELSE first \o ", " \o errors_to_str(Tail(errs))

(***************************************************************************)
(* RecordValidator._check_constraint                                       *)
(***************************************************************************)

\* An inner dict of the builder: the rule names in insertion order and the
\* value stored under each.
EmptyDict == [order |-> <<>>, type |-> "", regex |-> <<>>, condition |-> <<>>]

Contains(seq, x) == \E i \in 1 .. Len(seq) : seq[i] = x

RECURSIVE CheckRegexes(_, _, _, _, _)
\* case 'regex': lines 108-110, from position i on.
CheckRegexes(exprs, i, value, key, errs) ==
    IF i > Len(exprs) THEN [errors |-> errs, exc |-> NoExc]
    ELSE LET m == match_regex(exprs[i], value) IN
         IF m.exc # "None"
         THEN [errors |-> errs, exc |-> EvalExc(m, "regex", value)]
         ELSE IF m.ok THEN CheckRegexes(exprs, i + 1, value, key, errs)
         ELSE LET a == ErrorsAppend(errs, key, RegexMessage(i)) IN
              IF a.exc # NoExc THEN a
              ELSE CheckRegexes(exprs, i + 1, value, key, a.errors)

RECURSIVE CheckConditions(_, _, _, _, _)
\* case 'condition': lines 113-115, from position i on.
CheckConditions(conds, i, value, key, errs) ==
    IF i > Len(conds) THEN [errors |-> errs, exc |-> NoExc]
    ELSE LET m == check_condition(conds[i], value) IN
         IF m.exc # "None"
         THEN [errors |-> errs, exc |-> EvalExc(m, conds[i], value)]
         ELSE IF m.ok THEN CheckConditions(conds, i + 1, value, key, errs)
         ELSE LET a == ErrorsAppend(errs, key, ConditionMessage(i)) IN
              IF a.exc # NoExc THEN a
              ELSE CheckConditions(conds, i + 1, value, key, a.errors)

RECURSIVE CheckItems(_, _, _, _, _)
\* The loop over constraint.items() (lines 99-118), in the dict's order.
CheckItems(names, value, key, constraint, errs) ==
    IF names = <<>> THEN [errors |-> errs, exc |-> NoExc]
    ELSE CASE Head(names) = "type" ->
                IF ~check_instance(constraint.type, value)
                THEN ErrorsAppend(errs, key, "incorrect type")
                ELSE CheckItems(Tail(names), value, key, constraint, errs)
           [] Head(names) = "regex" ->
                LET r == CheckRegexes(constraint.regex, 1, value, key, errs) IN
                IF r.exc # NoExc THEN r
                ELSE CheckItems(Tail(names), value, key, constraint, r.errors)
           [] Head(names) = "condition" ->
                LET r == CheckConditions(constraint.condition, 1, value, key,
                                         errs) IN
                IF r.exc # NoExc THEN r
                ELSE CheckItems(Tail(names), value, key, constraint, r.errors)
           [] OTHER ->
                [errors |-> errs,
                 exc |-> Exc("ValueError", "Constraint not found")]

\* RecordValidator._check_constraint: the report after the call and the
\* exception it ended with, if any.
check_constraint(key, record, constraint, errs) ==
    LET value_to_validate == DictGet(record, key) IN
    IF ~Truthy(value_to_validate)
    THEN [errors |-> DictSet(errs, key, ErrStr("key not found")),
          exc |-> NoExc]
    ELSE CheckItems(constraint.order, value_to_validate, key, constraint, errs)

(***************************************************************************)
(* ConstraintsBuilder                                                      *)
(***************************************************************************)

\* d[name] = val on an inner dict: a new name goes last in the dict's order.
InnerSet(d, name, val) ==
    [d EXCEPT ![name] = val,
              !.order = IF Contains(d.order, name) THEN d.order
                        ELSE Append(d.order, name)]

\* self._constraints[key] on the defaultdict(dict): a missing key is created
\* with a new empty dict.  Gives the mapping, the heap and the dict's index.
DefaultGet(bc, hp, key) ==
    IF HasKey(bc, key)
    THEN [bc |-> bc, heap |-> hp, ref |-> bc[IndexOf(bc, key)].val]
    ELSE [bc |-> Append(bc, [key |-> key, val |-> Len(hp) + 1]),
          heap |-> Append(hp, EmptyDict),
          ref |-> Len(hp) + 1]

OverwriteRule(d, name, rule) == InnerSet(d, name, <<rule>>)

\* Lines 176-178 and 192-194: create the list if missing, then append to it.
AppendRule(d, name, rule) ==
    LET d1 == IF ~Contains(d.order, name) THEN InnerSet(d, name, <<>>) ELSE d
    IN InnerSet(d1, name, Append(d1[name], rule))

\* Lines 179 and 195: store the type tag.
SetType(d, constraint_type) == InnerSet(d, "type", constraint_type)

RECURSIVE NumRules(_)
\* The number of rules the builder holds: one per add_* call made.
NumRules(hp) ==
    IF hp = <<>> THEN 0
    ELSE Len(Head(hp).regex) + Len(Head(hp).condition) + NumRules(Tail(hp))

\* The one ConstraintsBuilder the caller holds.
Builder == "ConstraintsBuilder"

\* Nothing has been returned yet.
NoReturn == "no call"

\* Lines 196, 210, 214 and 218: return self.
ReturnSelf(self) == self

\* The call log after op(key, arg).
Logged(log, op, key, arg) ==
    [log EXCEPT ![key] = Append(@, [op |-> op, arg |-> arg])]

\* The caller declares constraints between validate calls, not during one.
BuilderInUse ==
    /\ NumRules(heap) < MaxBuilderCalls
    /\ \A t \in Threads : pc[t] = "idle"

\* ConstraintsBuilder._add_condition_check
add_condition_check(constraint_type, condition_name, key, condition) ==
    LET g == DefaultGet(b_constraints, heap, key)
        d == SetType(AppendRule(g.heap[g.ref], condition_name, condition),
                     constraint_type)
    IN /\ b_constraints' = g.bc
       /\ heap' = [g.heap EXCEPT ![g.ref] = d]

\* ConstraintsBuilder.add_regex
add_regex(key, regex) ==
    /\ BuilderInUse
    /\ LET g == DefaultGet(b_constraints, heap, key)
           d == SetType(AppendRule(g.heap[g.ref], "regex", regex), "str")
       IN /\ b_constraints' = g.bc
          /\ heap' = [g.heap EXCEPT ![g.ref] = d]
    /\ calls' = Logged(calls, "add_regex", key, regex)
    /\ ret' = ReturnSelf(Builder)
    /\ UNCHANGED <<built, rv, errors, pc, data, idx, outcome, failed,
                   dbVars>>

\* ConstraintsBuilder.add_value_check
add_value_check(key, condition) ==
    /\ BuilderInUse
    /\ add_condition_check("numeric", "condition", key, condition)
    /\ calls' = Logged(calls, "add_value_check", key, condition)
    /\ ret' = ReturnSelf(Builder)
    /\ UNCHANGED <<built, rv, errors, pc, data, idx, outcome, failed,
                   dbVars>>

\* ConstraintsBuilder.add_list_check
add_list_check(key, condition) ==
    /\ BuilderInUse
    /\ add_condition_check("list", "condition", key, condition)
    /\ calls' = Logged(calls, "add_list_check", key, condition)
    /\ ret' = ReturnSelf(Builder)
    /\ UNCHANGED <<built, rv, errors, pc, data, idx, outcome, failed,
                   dbVars>>

\* ConstraintsBuilder.add_bool_check
add_bool_check(key, condition) ==
    /\ BuilderInUse
    /\ add_condition_check("bool", "condition", key, condition)
    /\ calls' = Logged(calls, "add_bool_check", key, condition)
    /\ ret' = ReturnSelf(Builder)
    /\ UNCHANGED <<built, rv, errors, pc, data, idx, outcome, failed,
                   dbVars>>

\* dict(self._constraints): a new outer dict holding the same inner dicts.
ShallowCopy(bc) == bc

\* ConstraintsBuilder.build.  The caller builds before it constructs the
\* validator; calls on the builder may still follow.
build ==
    /\ ~rv.made
    /\ \A t \in Threads : pc[t] = "idle"
    /\ built' = [made |-> TRUE, items |-> ShallowCopy(b_constraints)]
    /\ built' # built
    /\ UNCHANGED <<heap, b_constraints, rv, errors, pc, data, idx, outcome,
                   failed, calls, ret, dbVars>>

(***************************************************************************)
(* RecordValidator                                                         *)
(***************************************************************************)

EmptyRecord == [k \in {} |-> PyNone]

NoOutcome == [kind |-> "none", exc |-> NoExc, value |-> EmptyRecord]

Returned(record) == [kind |-> "return", exc |-> NoExc, value |-> record]

Raised(exc) == [kind |-> "raise", exc |-> exc, value |-> EmptyRecord]

\* RecordValidator(constraints): the dataclass constructor; errors gets its
\* default_factory value.  One validator is constructed, from the built set.
NewRecordValidator ==
    /\ built.made
    /\ ~rv.made
    /\ rv' = [made |-> TRUE, constraints |-> built.items]
    /\ errors' = NewErrors
    /\ UNCHANGED <<heap, b_constraints, built, pc, data, idx, outcome, failed,
                   calls, ret, dbVars>>

KeepErrors(errs) == errs

\* Line 139: the report the call starts from.
ResetErrors(errs) == NewErrors

NoInputNever(record) == FALSE

\* Lines 135-136: the empty-input check.
NoInput(record) == DOMAIN record = {}

\* validate, lines 134-139: the empty-input check and the reset of the report.
validate_begin(t, record) ==
    /\ rv.made
    /\ pc[t] = "idle"
    /\ data' = [data EXCEPT ![t] = record]
    /\ idx' = [idx EXCEPT ![t] = 1]
    /\ IF NoInput(record)
       THEN /\ outcome' = [outcome EXCEPT
                   ![t] = Raised(Exc("ValueError", "No input data provided."))]
            /\ pc' = [pc EXCEPT ![t] = "done"]
            /\ UNCHANGED errors
       ELSE /\ errors' = ResetErrors(errors)
            /\ outcome' = [outcome EXCEPT ![t] = NoOutcome]
            /\ pc' = [pc EXCEPT ![t] = "loop"]
    /\ UNCHANGED <<heap, b_constraints, built, rv, failed, calls, ret,
                   dbVars>>

\* validate, lines 142-143: one turn of the loop over the constraints.
validate_check(t) ==
    /\ pc[t] = "loop"
    /\ idx[t] <= Len(rv.constraints)
    /\ LET item == rv.constraints[idx[t]]
           r == check_constraint(item.key, data[t], heap[item.val], errors)
       IN /\ errors' = r.errors
          /\ IF r.exc # NoExc
             THEN /\ outcome' = [outcome EXCEPT ![t] = Raised(r.exc)]
                  /\ pc' = [pc EXCEPT ![t] = "done"]
                  /\ UNCHANGED idx
             ELSE /\ idx' = [idx EXCEPT ![t] = idx[t] + 1]
                  /\ UNCHANGED <<outcome, pc>>
    /\ UNCHANGED <<heap, b_constraints, built, rv, data, failed, calls, ret,
                   dbVars>>

\* validate, lines 146-149: raise the report or return the record.
validate_end(t) ==
    /\ pc[t] = "loop"
    /\ idx[t] > Len(rv.constraints)
    /\ outcome' = [outcome EXCEPT ![t] =
            IF Len(errors) > 0
            THEN Raised(Exc("ValueError", errors_to_str(errors)))
            ELSE Returned(data[t])]
    /\ pc' = [pc EXCEPT ![t] = "done"]
    /\ failed' = (failed \/ Len(errors) > 0)
    /\ UNCHANGED <<heap, b_constraints, built, rv, errors, data, idx, calls,
                   ret, dbVars>>

\* The call is over: the caller has its result and the frame is gone.
validate_exit(t) ==
    /\ pc[t] = "done"
    /\ pc' = [pc EXCEPT ![t] = "idle"]
    /\ data' = [data EXCEPT ![t] = EmptyRecord]
    /\ idx' = [idx EXCEPT ![t] = 1]
    /\ outcome' = [outcome EXCEPT ![t] = NoOutcome]
    /\ UNCHANGED <<heap, b_constraints, built, rv, errors, failed, calls, ret,
                   dbVars>>

(***************************************************************************)
(* Logger (src/logger/generate_logs.py) and DatabaseManager                *)
(* (src/database_handler/get_database_manager.py)                          *)
(***************************************************************************)

\* Classes derived from Exception; KeyboardInterrupt, SystemExit and
\* GeneratorExit derive from BaseException only.
IsException(type) ==
    type \in {"ValueError", "AttributeError", "ImportError", "SQLAlchemyError"}

\* str(err) of what a library call raised.
LibraryText(call, how) ==
    CASE how = "SQLAlchemyError" /\ call = "create_engine" ->
            "Could not parse SQLAlchemy URL"
      [] how = "SQLAlchemyError" /\ call = "connect" ->
            "unable to open database"
      [] how = "ImportError" -> "No module named 'psycopg2'"
      [] OTHER -> ""

\* SingletonMeta._instances has no DatabaseManager.
NoManager ==
    [made |-> FALSE, connection_url |-> "", engine |-> "None",
     engine_initialized |-> FALSE]

\* DatabaseManager.__init__, lines 37-39.
NewManager(connection_url) ==
    [made |-> TRUE, connection_url |-> connection_url, engine |-> "None",
     engine_initialized |-> FALSE]

\* The returned DatabaseManager (there is one: the class is a singleton).
Manager == "DatabaseManager"

CallReturned(value) == [kind |-> "return", exc |-> NoExc, value |-> value]

CallRaised(exc) == [kind |-> "raise", exc |-> exc, value |-> "None"]

\* No call has been made on the manager.
NoCall ==
    [op |-> "none", url |-> "", before |-> NoManager, mark |-> 0,
     trace |-> <<>>,
     result |-> [kind |-> "none", exc |-> NoExc, value |-> "None"]]

\* How a method body or a wrapper ends: the manager and the log file as it
\* leaves them, the library calls made, the exception raised and the value
\* returned.
Ended(m, log, trace, exc, value) ==
    [m |-> m, log |-> log, trace |-> trace, exc |-> exc, value |-> value]

LibraryCall(call, how) == [call |-> call, outcome |-> how]

\* Lines 31-35: the log line, without its time stamp and duration.
log_message(func_name, operation_success, error_message) ==
    [func |-> func_name,
     status |-> IF operation_success THEN "Success" ELSE "Failure",
     error |-> error_message]

LogAndReraise(func_name, r) ==
    IF r.exc = NoExc
    THEN [r EXCEPT !.log = Append(r.log, log_message(func_name, TRUE, ""))]
    ELSE [r EXCEPT !.log = Append(r.log,
                                  log_message(func_name, FALSE, r.exc.msg))]

\* Logger.__call__'s wrapper around a function that has ended as r: `except
\* Exception` takes what derives from Exception, anything else passes
\* through before the log line is written.
wrapper(func_name, r) ==
    IF r.exc = NoExc
    THEN [r EXCEPT !.log = Append(r.log, log_message(func_name, TRUE, ""))]
    ELSE IF IsException(r.exc.type)
    THEN [r EXCEPT !.log = Append(r.log,
                                  log_message(func_name, FALSE, r.exc.msg)),
                   !.exc = NoExc,
                   !.value = "None"]
    ELSE r

\* The body of DatabaseManager.build_engine, lines 51-57.
build_engine_body(m, log, trace, create) ==
    IF m.connection_url = ""
    THEN Ended(m, log, trace,
               Exc("ValueError", "Connection string cannot be empty."), "None")
    ELSE LET tr == Append(trace, LibraryCall("create_engine", create)) IN
         CASE create = "Engine" ->
                Ended([m EXCEPT !.engine = "Engine",
                                !.engine_initialized = TRUE],
                      log, tr, NoExc, "None")
           [] create = "SQLAlchemyError" ->
                Ended(m, log, tr,
                      Exc("ValueError",
                          "Error occurred while building engine: "
                          \o LibraryText("create_engine", create) \o "."),
                      "None")
           [] OTHER ->
                Ended(m, log, tr,
                      Exc(create, LibraryText("create_engine", create)), "None")

\* DatabaseManager.build_engine, as decorated at line 49.
build_engine(m, log, trace, create) ==
    wrapper("build_engine", build_engine_body(m, log, trace, create))

\* The body of DatabaseManager.test_connection, lines 61-72.
test_connection_body(m, log, trace, create, connect) ==
    LET b == IF ~m.engine_initialized
             THEN build_engine(m, log, trace, create)
             ELSE Ended(m, log, trace, NoExc, "None")
    IN IF b.exc # NoExc THEN b
       ELSE IF b.m.engine = "None"
       THEN [b EXCEPT !.exc = Exc("AttributeError",
                          "'NoneType' object has no attribute 'connect'")]
       ELSE LET tr == Append(b.trace, LibraryCall("connect", connect)) IN
            CASE connect = "ok" -> [b EXCEPT !.trace = tr]
              [] connect = "SQLAlchemyError" ->
                    [b EXCEPT !.trace = tr,
                              !.exc = Exc("ValueError",
                                          "Error occurred: "
                                          \o LibraryText("connect", connect)
                                          \o ".")]
              [] OTHER ->
                    [b EXCEPT !.trace = tr,
                              !.exc = Exc(connect,
                                          LibraryText("connect", connect))]

\* DatabaseManager.test_connection, as decorated at line 59.
test_connection(m, log, trace, create, connect) ==
    wrapper("test_connection",
            test_connection_body(m, log, trace, create, connect))

\* The engine property, lines 43-47.
engine_property(m, log, trace, create) ==
    LET b == IF ~m.engine_initialized
             THEN build_engine(m, log, trace, create)
             ELSE Ended(m, log, trace, NoExc, "None")
    IN IF b.exc # NoExc THEN b ELSE [b EXCEPT !.value = b.m.engine]

\* SingletonMeta.__call__ with DatabaseManager.__init__: the first accepted
\* construction is stored, later calls get the stored instance whatever the
\* URL they give.
SingletonCall(inst, connection_url) ==
    IF inst.made THEN [inst |-> inst, exc |-> NoExc]
    ELSE IF connection_url = ""
    THEN [inst |-> inst,
          exc |-> Exc("ValueError", "Connection string cannot be empty.")]
    ELSE [inst |-> NewManager(connection_url), exc |-> NoExc]

\* EnvironmentVariableReader.read: os.getenv(name, '').
read(env) == IF env = Unset THEN "" ELSE env

\* Lines 76-79 and 84-87: construct, build the engine, test the connection,
\* return the manager.
Connected(inst, log, connection_url, create1, create2, connect) ==
    LET c == SingletonCall(inst, connection_url) IN
    IF c.exc # NoExc THEN Ended(inst, log, <<>>, c.exc, "None")
    ELSE LET b == build_engine(c.inst, log, <<>>, create1) IN
         IF b.exc # NoExc THEN b
         ELSE LET t == test_connection(b.m, b.log, b.trace, create2, connect)
              IN IF t.exc # NoExc THEN t ELSE [t EXCEPT !.value = Manager]

\* A call on the manager has ended as r: the caller has its result.
Finish(op, connection_url, r) ==
    /\ instances' = r.m
    /\ log_file' = r.log
    /\ last' = [op |-> op, url |-> connection_url, before |-> instances,
                mark |-> Len(log_file), trace |-> r.trace,
                result |-> IF r.exc # NoExc THEN CallRaised(r.exc)
                           ELSE CallReturned(r.value)]
    /\ UNCHANGED validatorVars

\* The caller goes on while the log file is short.
ManagerInUse == Len(log_file) < MaxLogLines

\* DatabaseManager.from_connection_url
from_connection_url(connection_url, create1, create2, connect) ==
    /\ ManagerInUse
    /\ Finish("from_connection_url", connection_url,
              Connected(instances, log_file, connection_url,
                        create1, create2, connect))

\* DatabaseManager.from_environment_variable
from_environment_variable(env, create1, create2, connect) ==
    /\ ManagerInUse
    /\ Finish("from_environment_variable", read(env),
              Connected(instances, log_file, read(env),
                        create1, create2, connect))

\* dbm.build_engine() by a caller that holds the manager.
call_build_engine(create) ==
    /\ ManagerInUse
    /\ instances.made
    /\ Finish("build_engine", instances.connection_url,
              build_engine(instances, log_file, <<>>, create))

\* dbm.test_connection() by a caller that holds the manager.
call_test_connection(create, connect) ==
    /\ ManagerInUse
    /\ instances.made
    /\ Finish("test_connection", instances.connection_url,
              test_connection(instances, log_file, <<>>, create, connect))

\* dbm.engine by a caller that holds the manager.
get_engine(create) ==
    /\ ManagerInUse
    /\ instances.made
    /\ Finish("engine", instances.connection_url,
              engine_property(instances, log_file, <<>>, create))

(***************************************************************************)
(* Specifications                                                          *)
(***************************************************************************)

Init ==
    /\ heap = <<>>
    /\ b_constraints = <<>>
    /\ built = [made |-> FALSE, items |-> <<>>]
    /\ rv = [made |-> FALSE, constraints |-> <<>>]
    /\ errors = NewErrors
    /\ pc = [t \in Threads |-> "idle"]
    /\ data = [t \in Threads |-> EmptyRecord]
    /\ idx = [t \in Threads |-> 1]
    /\ outcome = [t \in Threads |-> NoOutcome]
    /\ failed = FALSE
    /\ calls = [key \in Keys |-> <<>>]
    /\ ret = NoReturn
    /\ instances = NoManager
    /\ log_file = <<>>
    /\ last = NoCall

BuilderNext ==
    \/ \E key \in Keys, regex \in Regexes : add_regex(key, regex)
    \/ \E key \in Keys, condition \in ValuePredicates :
            add_value_check(key, condition)
    \/ \E key \in Keys, condition \in ListPredicates :
            add_list_check(key, condition)
    \/ \E key \in Keys, condition \in BoolPredicates :
            add_bool_check(key, condition)
    \/ build
    \/ NewRecordValidator

\* One caller: the validate calls follow each other.
Next ==
    \/ BuilderNext
    \/ \E record \in Records : validate_begin(MainThread, record)
    \/ validate_check(MainThread)
    \/ validate_end(MainThread)
    \/ validate_exit(MainThread)

Spec == Init /\ [][Next]_vars

\* Two threads call validate on the one RecordValidator; a thread may be
\* preempted between two turns of the loop.
NextConc ==
    \/ BuilderNext
    \/ \E t \in Threads, record \in ConcRecords : validate_begin(t, record)
    \/ \E t \in Threads : validate_check(t)
    \/ \E t \in Threads : validate_end(t)
    \/ \E t \in Threads : validate_exit(t)

SpecConc == Init /\ [][NextConc]_vars

\* A caller of the database manager: the factories, and the methods and the
\* property on the manager obtained.
NextDb ==
    \/ \E connection_url \in Urls, create1, create2 \in CreateOutcomes,
          connect \in ConnectOutcomes :
            from_connection_url(connection_url, create1, create2, connect)
    \/ \E env \in EnvValues, create1, create2 \in CreateOutcomes,
          connect \in ConnectOutcomes :
            from_environment_variable(env, create1, create2, connect)
    \/ \E create \in CreateOutcomes : call_build_engine(create)
    \/ \E create \in CreateOutcomes, connect \in ConnectOutcomes :
            call_test_connection(create, connect)
    \/ \E create \in CreateOutcomes : get_engine(create)

SpecDb == Init /\ [][NextDb]_vars

(***************************************************************************)
(* What the properties speak about                                         *)
(***************************************************************************)

\* The fields the validator's constraint set constrains.
ConstrainedKeys == { rv.constraints[i].key : i \in 1 .. Len(rv.constraints) }

\* The rules of a constrained field, as the validator sees them now.
ConstraintOf(key) == heap[rv.constraints[IndexOf(rv.constraints, key)].val]

\* Thread t's call is over.
Done(t) == pc[t] = "done"

\* Thread t's call went through every constrained field and ended with the
\* record or with the aggregated report.
FullPass(t) ==
    /\ Done(t)
    /\ DOMAIN data[t] # {}
    /\ outcome[t].exc.type \in {"None", "ValueError"}

\* Thread t's call ended with an exception that escaped the rules of `key`.
RaisedIn(t, key) ==
    /\ Done(t)
    /\ DOMAIN data[t] # {}
    /\ outcome[t].exc.type \notin {"None", "ValueError"}
    /\ rv.constraints[idx[t]].key = key

\* The report's entry for a field: its list, <<>> when the field has none.
\* A bare str entry is no list of violations.
EntryOf(errs, key) ==
    IF HasKey(errs, key) THEN errs[IndexOf(errs, key)].val ELSE ErrList(<<>>)

Positions(n) == [i \in 1 .. n |-> i]

\* A value satisfies a field's rules: its type, every regex, every condition.
Satisfies(value, c) ==
    /\ check_instance(c.type, value)
    /\ \A i \in 1 .. Len(c.regex) :
            LET m == match_regex(c.regex[i], value) IN m.exc = "None" /\ m.ok
    /\ \A i \in 1 .. Len(c.condition) :
            LET m == check_condition(c.condition[i], value)
            IN m.exc = "None" /\ m.ok

RECURSIVE RunChecks(_, _, _, _, _)
\* The loop of validate run without interruption, from item i on.
RunChecks(items, i, hp, record, errs) ==
    IF i > Len(items) THEN [errors |-> errs, exc |-> NoExc]
    ELSE LET r == check_constraint(items[i].key, record, hp[items[i].val],
                                   errs) IN
         IF r.exc # NoExc THEN r
         ELSE RunChecks(items, i + 1, hp, record, r.errors)

\* The outcome of validate(record) when the call runs alone on a validator
\* that no earlier call has used.
validate_alone(items, hp, record) ==
    IF DOMAIN record = {}
    THEN Raised(Exc("ValueError", "No input data provided."))
    ELSE LET r == RunChecks(items, 1, hp, record, NewErrors) IN
         IF r.exc # NoExc THEN Raised(r.exc)
         ELSE IF Len(r.errors) > 0
              THEN Raised(Exc("ValueError", errors_to_str(r.errors)))
              ELSE Returned(record)

(***************************************************************************)
(* Properties                                                              *)
(***************************************************************************)

\* C1: a non-empty record whose every constrained field is present and
\* satisfies the field's type, regexes and conditions (falsy values such as
\* 0, False, '' and [] included) is returned by validate, unchanged and
\* without an error.
C1_ValidRecordReturned ==
    \A t \in Threads :
        ( /\ Done(t)
          /\ DOMAIN data[t] # {}
          /\ \A key \in ConstrainedKeys :
                /\ key \in DOMAIN data[t]
                /\ Satisfies(data[t][key], ConstraintOf(key)) )
        => outcome[t] = Returned(data[t])

\* C2: in the report of a call on a non-empty record, a constrained field's
\* entry is exactly ["key not found"] if and only if the field is absent
\* from the record.
C2_KeyNotFoundIffAbsent ==
    \A t \in Threads : \A key \in ConstrainedKeys :
        FullPass(t) =>
            ( EntryOf(errors, key) = ErrList(<<"key not found">>)
              <=> key \notin DOMAIN data[t] )

\* C3: a present value that fails its field's type check is reported as
\* exactly ["incorrect type"]: no regex is matched against it and no
\* predicate is called on it before the type check, so nothing they would
\* raise or report shows.
C3_TypeCheckFirst ==
    \A t \in Threads : \A key \in ConstrainedKeys :
        ( /\ key \in DOMAIN data[t]
          /\ ~check_instance(ConstraintOf(key).type, data[t][key]) )
        => /\ ~RaisedIn(t, key)
           /\ FullPass(t) =>
                EntryOf(errors, key) = ErrList(<<"incorrect type">>)

\* The regex violations listed for a field, in the report's order.
RegexEntries(errs, key, n) ==
    LET e == EntryOf(errs, key) IN
    IF e.t # "list" THEN <<>>
    ELSE SelectSeq(e.v, LAMBDA m : \E i \in 1 .. n : m = RegexMessage(i))

\* The regex violations a str value must get: one per regex that does not
\* match, numbered by its 1-based position.
ExpectedRegexEntries(value, regexes) ==
    LET failing == SelectSeq(Positions(Len(regexes)),
                             LAMBDA i : ~match_regex(regexes[i], value).ok)
    IN [j \in 1 .. Len(failing) |-> RegexMessage(failing[j])]

\* C4: for a str-valued field with n regexes, the report lists "does not
\* match regex number i" exactly for the positions i whose regex does not
\* match the value, in increasing order.
C4_RegexesNumbered ==
    \A t \in Threads : \A key \in ConstrainedKeys :
        ( /\ FullPass(t)
          /\ key \in DOMAIN data[t]
          /\ data[t][key].t = "str"
          /\ Len(ConstraintOf(key).regex) > 0 )
        => RegexEntries(errors, key, Len(ConstraintOf(key).regex))
             = ExpectedRegexEntries(data[t][key], ConstraintOf(key).regex)

\* The wording the specification gives a condition violation.
SpecConditionMessage(i) == "does not match condition number " \o ToString(i)

\* The entries of a field's report that are neither the type violation nor
\* a regex violation.
ConditionEntries(errs, key, n) ==
    LET e == EntryOf(errs, key) IN
    IF e.t # "list" THEN <<>>
    ELSE SelectSeq(e.v, LAMBDA m : /\ m # "incorrect type"
                                   /\ \A i \in 1 .. n : m # RegexMessage(i))

ExpectedConditionEntries(value, conditions) ==
    LET failing == SelectSeq(Positions(Len(conditions)),
                             LAMBDA i : ~check_condition(conditions[i], value).ok)
    IN [j \in 1 .. Len(failing) |-> SpecConditionMessage(failing[j])]

\* C5: for a field with n predicates and a value of the declared type, the
\* report lists "does not match condition number i" exactly for the
\* positions i whose predicate returns false, in declaration order.
C5_ConditionsNumbered ==
    \A t \in Threads : \A key \in ConstrainedKeys :
        ( /\ FullPass(t)
          /\ key \in DOMAIN data[t]
          /\ check_instance(ConstraintOf(key).type, data[t][key])
          /\ Len(ConstraintOf(key).condition) > 0 )
        => ConditionEntries(errors, key, Len(ConstraintOf(key).regex))
             = ExpectedConditionEntries(data[t][key],
                                        ConstraintOf(key).condition)

\* C6: validate on a record with no fields ends with the error "No input
\* data provided." before any field is evaluated, and no call on a record
\* with fields ends with that error.
C6_EmptyInputFails ==
    \A t \in Threads :
        Done(t) =>
            IF DOMAIN data[t] = {}
            THEN /\ outcome[t] =
                        Raised(Exc("ValueError", "No input data provided."))
                 /\ idx[t] = 1
            ELSE outcome[t].exc.msg # "No input data provided."

\* C6 witness: a call on the empty record has ended, on a constraint set
\* that constrains a field.
C6_Witness ==
    \E t \in Threads :
        /\ Done(t)
        /\ DOMAIN data[t] = {}
        /\ Len(rv.constraints) > 0
        /\ outcome[t].kind = "raise"

\* C7: a boolean held by a field declared numeric is reported as "incorrect
\* type", and an integer satisfies 'numeric' and not 'bool'.
C7_BoolIsNotNumeric ==
    /\ \A t \in Threads : \A key \in ConstrainedKeys :
            ( /\ FullPass(t)
              /\ key \in DOMAIN data[t]
              /\ data[t][key].t = "bool"
              /\ ConstraintOf(key).type = "numeric" )
            => LET e == EntryOf(errors, key) IN
               e.t = "list" /\ Contains(e.v, "incorrect type")
    /\ \A v \in Values :
            v.t = "int" =>
                check_instance("numeric", v) /\ ~check_instance("bool", v)

\* The inner dict the builder holds for a field.
ConstraintOfBuilder(key) == heap[b_constraints[IndexOf(b_constraints, key)].val]

\* What a built constraint set says: per field, in order, the rules stored.
Snapshot(items, hp) ==
    [i \in 1 .. Len(items) |-> [key |-> items[i].key, rules |-> hp[items[i].val]]]

\* C8: no later call on the builder changes a constraint set that build()
\* has returned: its fields, type tags and rule lists stay as they were.
C8_BuildIsolated ==
    [][ (built.made /\ built' = built)
        => Snapshot(built'.items, heap') = Snapshot(built.items, heap) ]_vars

\* C9: with validate calls of two threads interleaved between per-field
\* checks, each call ends as it would when run alone.
C9_ConcurrentCallsIndependent ==
    \A t \in Threads :
        Done(t) => outcome[t] = validate_alone(rv.constraints, heap, data[t])

\* C10: in a sequence of validate calls on one RecordValidator, each call
\* ends as its record alone decides, and the report it leaves holds only the
\* violations of its own record.
C10_SequentialCallsIndependent ==
    Done(MainThread) =>
        /\ outcome[MainThread] =
                validate_alone(rv.constraints, heap, data[MainThread])
        /\ FullPass(MainThread) =>
                errors = RunChecks(rv.constraints, 1, heap, data[MainThread],
                                   NewErrors).errors

\* C10 witness: after a call that failed validation, a call on the same
\* validator has returned its record.
C10_Witness ==
    /\ failed
    /\ Done(MainThread)
    /\ Len(rv.constraints) > 0
    /\ outcome[MainThread] = Returned(data[MainThread])

\* The type tag an add_* call declares for its field.
TypeImplied(op) ==
    CASE op = "add_regex" -> "str"
      [] op = "add_value_check" -> "numeric"
      [] op = "add_list_check" -> "list"
      [] op = "add_bool_check" -> "bool"

\* The arguments of the calls of a log that satisfy Test, in call order.
ArgsOf(log, Test(_)) ==
    LET sel == SelectSeq(log, Test)
    IN [i \in 1 .. Len(sel) |-> sel[i].arg]

IsRegexCall(c) == c.op = "add_regex"

IsCheckCall(c) ==
    c.op \in {"add_value_check", "add_list_check", "add_bool_check"}

\* C11: after any sequence of builder calls, every field named in a call
\* has the type tag of the last call made for it, the patterns of all its
\* add_regex calls in call order as its regex list, and the predicates of
\* all its add_*_check calls in call order as its condition list; and every
\* builder call returns the same builder.
C11_RulesAppendedLastTypeWins ==
    /\ \A key \in Keys :
            calls[key] # <<>> =>
                /\ HasKey(b_constraints, key)
                /\ LET d == ConstraintOfBuilder(key)
                       log == calls[key]
                   IN /\ d.type = TypeImplied(log[Len(log)].op)
                      /\ d.regex = ArgsOf(log, IsRegexCall)
                      /\ d.condition = ArgsOf(log, IsCheckCall)
    /\ (\E key \in Keys : calls[key] # <<>>) => ret = Builder

\* C11 witness: a field has had a check call and then a regex call, each of
\* which returned the builder.
C11_Witness ==
    \E key \in Keys :
        /\ Len(calls[key]) >= 2
        /\ IsCheckCall(calls[key][1])
        /\ IsRegexCall(calls[key][2])
        /\ ret = Builder

\* The lines the last call on the manager added to the log file.
Appended == SubSeq(log_file, last.mark + 1, Len(log_file))

IsFailureOf(line, func_name) ==
    line.func = func_name /\ line.status = "Failure"

\* The number of lines of a log written for func_name.
LinesOf(log, func_name) ==
    Cardinality({i \in 1 .. Len(log) : log[i].func = func_name})

\* The library calls of the last call that ended with one of Failures.
FailedCalls(Failures) ==
    {i \in 1 .. Len(last.trace) : last.trace[i].outcome \in Failures}

\* The wrapped function of the last call (build_engine or test_connection,
\* called by the caller itself) raised: the library call it ended on failed
\* with one of Failures.
WrappedRaised(Failures) ==
    /\ last.op \in {"build_engine", "test_connection"}
    /\ last.trace # <<>>
    /\ last.trace[Len(last.trace)].outcome \in Failures

\* The constructor has accepted a non-empty URL, in this call or before it.
ConstructorAccepted == last.before.made \/ last.url # ""

\* What the decorator does with a wrapped function that ends with one of
\* Failures: nothing is propagated, one 'Failure' line is written for it,
\* None is returned; a build_engine that fails leaves the engine as it was
\* (an uninitialised engine stays uninitialised); and a factory whose
\* library calls failed that way still returns the manager.
HidesFailures(Failures) ==
    /\ WrappedRaised(Failures) =>
            /\ last.result = CallReturned("None")
            /\ Appended # <<>>
            /\ IsFailureOf(Appended[Len(Appended)], last.op)
            /\ LinesOf(Appended, last.op) = 1
    /\ (last.op \in {"build_engine", "engine"} /\ FailedCalls(Failures) # {}) =>
            /\ last.result = CallReturned("None")
            /\ instances = last.before
            /\ ~last.before.engine_initialized
               => ~instances.engine_initialized /\ instances.engine = "None"
    /\ ( /\ last.op \in {"from_connection_url", "from_environment_variable"}
         /\ ConstructorAccepted
         /\ \A i \in 1 .. Len(last.trace) :
                last.trace[i].outcome \in {"Engine", "ok"} \cup Failures ) =>
            /\ last.result = CallReturned(Manager)
            /\ instances.made
            /\ Appended # <<>>
            /\ Appended[Len(Appended)].func = "test_connection"
            /\ ( /\ ~last.before.made
                 /\ \A i \in 1 .. Len(last.trace) :
                        last.trace[i].call = "create_engine"
                        => last.trace[i].outcome \in Failures )
               => /\ ~instances.engine_initialized
                  /\ instances.engine = "None"
                  /\ \A j \in 1 .. Len(Appended) :
                        Appended[j].status = "Failure"

\* Every way a library call inside a wrapped function may fail.
AnyFailure == (CreateOutcomes \cup ConnectOutcomes) \ {"Engine", "ok"}

\* The failures that derive from Exception.
ExceptionFailure == {how \in AnyFailure : IsException(how)}

\* C12: a function wrapped by the Logger decorator never propagates an
\* exception the wrapped function raised: the wrapper writes exactly one
\* 'Failure' line and returns None, so a failing build_engine or
\* test_connection is invisible to the caller of a DatabaseManager: the
\* engine stays uninitialised and from_connection_url and
\* from_environment_variable still return the manager once the constructor
\* has accepted a non-empty URL.
C12_LoggerHidesEveryException == HidesFailures(AnyFailure)

\* C12, amended: the same for exceptions that derive from Exception; a
\* BaseException that is not an Exception (KeyboardInterrupt) passes
\* through the wrapper.
C12_LoggerHidesExceptions == HidesFailures(ExceptionFailure)

\* C12 witness: from_connection_url on a URL the constructor accepted, with
\* create_engine failing in build_engine and again in test_connection, has
\* returned the manager with its engine uninitialised and two 'Failure'
\* lines in the log file.
C12_Witness ==
    /\ last.op = "from_connection_url"
    /\ ~last.before.made
    /\ Len(last.trace) = 2
    /\ FailedCalls(ExceptionFailure) = {1, 2}
    /\ last.result = CallReturned(Manager)
    /\ ~instances.engine_initialized
    /\ Len(Appended) = 3
    /\ IsFailureOf(Appended[3], "test_connection")

====
